---- MODULE Spec2Model ----
(***************************************************************************)
(* Model of the persistent term-frequency dictionary of                    *)
(* crates/core/src/web_spell/term_freqs.rs (DictBuilder, StoredDict,       *)
(* Metadata, TermDict).                                                    *)
(*                                                                         *)
(* A term is a sequence of Unicode code points; its stored form is its     *)
(* UTF-8 byte sequence.  A segment file (fst::Map) is a sequence of        *)
(* (term, freq) entries in the order its builder received them.            *)
(***************************************************************************)
EXTENDS Integers, Sequences, FiniteSets, TLC

VARIABLES
  builder,        \* TermDict.builder.map
  stored,         \* TermDict.stored: the open segment handles
  metadata,       \* TermDict.metadata.dicts
  files,          \* the files of the directory besides meta.json: name -> entries
  metaFile,       \* the document in meta.json
  nextUuid,       \* the ids handed out so far are 1..nextUuid - 1
  inserted,       \* number of admitted insert calls so far
  mergeIns,       \* number of merge-in calls so far
  admittedCalls,  \* per term, the insert calls that passed the filter since
                  \* the builder was last emptied
  lastOp,         \* the call that produced this state
  readers,        \* per concurrent caller, the read call it is inside of
  merger          \* the locals of a running StoredDict::merge

vars ==
  <<builder, stored, metadata, files, metaFile, nextUuid, inserted, mergeIns,
    admittedCalls, lastOp, readers, merger>>

(***************************************************************************)
(* Bounds of the exploration.                                              *)
(***************************************************************************)
\* total number of admitted insert calls explored in one behaviour
MaxInserts == 1
\* number of segment ids (uuid::Uuid::new_v4 calls) explored in one behaviour
MaxUuid == 3
\* largest top_n_terms passed to prune
MaxTopN == 2
\* number of merge-in calls explored in one behaviour
MaxMergeIn == 1

\* the number of records a failing merge may have written
MaxKept == 3

\* the number of segments handed to one call of StoredDict::merge
MaxMergeInputs == 2

\* the number of characters of the terms the filter of insert is tried on
MaxTermLen == 4

(***************************************************************************)
(* Characters and strings.                                                 *)
(***************************************************************************)
\* str::len counts the bytes of the UTF-8 encoding
Utf8(c) ==
  IF c < 128 THEN <<c>>
  ELSE IF c < 2048 THEN <<192 + (c \div 64), 128 + (c % 64)>>
  ELSE IF c < 65536
    THEN <<224 + (c \div 4096), 128 + ((c \div 64) % 64), 128 + (c % 64)>>
  ELSE <<240 + (c \div 262144), 128 + ((c \div 4096) % 64),
         128 + ((c \div 64) % 64), 128 + (c % 64)>>

RECURSIVE Bytes(_)
Bytes(term) ==
  IF term = <<>> THEN <<>> ELSE Utf8(Head(term)) \o Bytes(Tail(term))

StrLen(term) == Len(Bytes(term))

\* char::is_ascii_punctuation
IsAsciiPunctuation(c) ==
  \/ c \in 33..47
  \/ c \in 58..64
  \/ c \in 91..96
  \/ c \in 123..126

\* char::is_alphabetic, on the code points below U+0100
IsAlphabetic(c) ==
  \/ c \in 65..90
  \/ c \in 97..122
  \/ c \in {170, 181, 186}
  \/ c \in 192..214
  \/ c \in 216..246
  \/ c \in 248..255

\* term.chars().filter(|c| c.is_ascii_punctuation()).count()
CountPunctuation(term) ==
  Cardinality({i \in 1..Len(term) : IsAsciiPunctuation(term[i])})

\* term.chars().filter(|c| !c.is_alphabetic()).count()
CountNonAlphabetic(term) ==
  Cardinality({i \in 1..Len(term) : ~IsAlphabetic(term[i])})

\* the order of String and of fst keys: lexicographic on the bytes
RECURSIVE LexLess(_, _)
LexLess(a, b) ==
  IF b = <<>> THEN FALSE
  ELSE IF a = <<>> THEN TRUE
  ELSE IF Head(a) # Head(b) THEN Head(a) < Head(b)
  ELSE LexLess(Tail(a), Tail(b))

TermLess(s, t) == LexLess(Bytes(s), Bytes(t))

(***************************************************************************)
(* The terms the exploration inserts.                                      *)
(***************************************************************************)
Rep(c, n) == [i \in 1..n |-> c]

T_a == <<97>>                         \* "a"
T_bar == <<98, 97, 114>>              \* "bar"
T_space == <<97, 32, 98>>             \* "a b"
T_punct == <<33, 33, 33, 97>>         \* "!!!a"
T_ab1 == <<97, 98, 49>>               \* "ab1"
T_e == <<233>>                        \* "e-acute", one character, two bytes
T_ee1 == <<233, 233, 49>>             \* two e-acute and a digit, five bytes
T_long == Rep(97, 101)                \* 101 times "a"

TermUniverse ==
  {T_a, T_bar, T_space, T_punct, T_ab1, T_e, T_ee1, T_long}

T_100 == Rep(97, 100)                 \* 100 times "a"

\* "a", "e-acute", "1" and "!"
FilterAlphabet == {97, 233, 49, 33}

\* every term of up to MaxTermLen of these characters, the term with a
\* space and the two terms at the upper length limit
FilterTerms ==
  {t : t \in UNION {[1..n -> FilterAlphabet] : n \in 0..MaxTermLen}
                \cup {T_space, T_100, T_long}}

(***************************************************************************)
(* Segment ids and file names.  The n-th id uuid::Uuid::new_v4 returns is  *)
(* the 128-bit value n; its text is the hyphenated lower-case hex form.    *)
(***************************************************************************)
HexDigit(d) == IF d < 10 THEN 48 + d ELSE 87 + d

HexValue(c) ==
  IF c \in 48..57 THEN c - 48
  ELSE IF c \in 97..102 THEN c - 87
  ELSE IF c \in 65..70 THEN c - 55
  ELSE -1

\* the i-th of the 32 hex digits of u (ids of the model are below 16^7)
Nibble(u, i) == IF 32 - i > 6 THEN 0 ELSE (u \div (16 ^ (32 - i))) % 16

Hyphen == 45

\* Uuid's Display: 8-4-4-4-12
UuidDisplay(u) ==
  [i \in 1..36 |->
     IF i \in {9, 14, 19, 24} THEN Hyphen
     ELSE HexDigit(Nibble(u, i - Cardinality({j \in {9, 14, 19, 24} : j < i})))]

\* the texts of the ids a behaviour can hand out, computed once
UuidTexts == [u \in 1..(2 * MaxUuid + 2) |-> UuidDisplay(u)]

UuidToString(u) == UuidTexts[u]

\* the positions of the hex digits in the text of an id, and those of the
\* digits above the last seven
HexPositions == (1..36) \ {9, 14, 19, 24}
HighPositions == (1..29) \ {9, 14, 19, 24}

\* Uuid's FromStr on the hyphenated form; -1 stands for Err.  The ids of
\* the model are below 16^7: their value is in the last seven digits, and a
\* text with another digit set is the id 16^7, which no segment has
ParseUuid(str) ==
  IF Len(str) # 36 THEN -1
  ELSE IF ~(str[9] = Hyphen /\ str[14] = Hyphen /\ str[19] = Hyphen /\ str[24] = Hyphen)
    THEN -1
  ELSE IF \A i \in HighPositions : str[i] = 48
    THEN IF \E i \in 30..36 : HexValue(str[i]) < 0 THEN -1
         ELSE HexValue(str[36]) + 16 * HexValue(str[35]) + 256 * HexValue(str[34])
                + 4096 * HexValue(str[33]) + 65536 * HexValue(str[32])
                + 1048576 * HexValue(str[31]) + 16777216 * HexValue(str[30])
  ELSE IF \E i \in HexPositions : HexValue(str[i]) < 0 THEN -1
  ELSE 268435456

DictExtension == <<100, 105, 99, 116>>      \* "dict"

\* format!("{}.dict", uuid)
DictFileName(uuid) == UuidToString(uuid) \o <<46>> \o DictExtension

\* the position of the last '.' at or before i, 0 when there is none
RECURSIVE LastDot(_, _)
LastDot(name, i) ==
  IF i = 0 THEN 0 ELSE IF name[i] = 46 THEN i ELSE LastDot(name, i - 1)

\* Path::extension and Path::file_stem
Extension(name) ==
  LET d == LastDot(name, Len(name))
  IN IF d <= 1 THEN <<>> ELSE SubSeq(name, d + 1, Len(name))

FileStem(name) ==
  LET d == LastDot(name, Len(name))
  IN IF d <= 1 THEN name ELSE SubSeq(name, 1, d - 1)

(***************************************************************************)
(* DictBuilder: an ordered map term -> count (BTreeMap<String, u64>).      *)
(***************************************************************************)
DictBuilderNew == [t \in {} |-> 0]

\* variant: a new entry starts at 0, as with or_insert(0)
DictBuilderInsertFromZero(map, term) ==
  IF term \in DOMAIN map
    THEN [map EXCEPT ![term] = @ + 1]
    ELSE [t \in DOMAIN map \cup {term} |-> IF t = term THEN 0 ELSE map[t]]

DictBuilderInsert(map, term) ==
  IF term \in DOMAIN map
    THEN [map EXCEPT ![term] = @ + 1]
    ELSE [t \in DOMAIN map \cup {term} |-> IF t = term THEN 1 ELSE map[t]]

\* iteration of the BTreeMap: ascending in the byte order of the keys
RECURSIVE BTreeIter(_)
BTreeIter(map) ==
  IF DOMAIN map = {} THEN <<>>
  ELSE LET k == CHOOSE x \in DOMAIN map :
                  \A y \in DOMAIN map \ {x} : TermLess(x, y)
       IN <<[term |-> k, freq |-> map[k]]>>
            \o BTreeIter([t \in DOMAIN map \ {k} |-> map[t]])

\* variant: an empty map is written as a segment holding one placeholder key
DictBuilderBuildPadded(map) ==
  IF DOMAIN map = {} THEN <<[term |-> T_a, freq |-> 0]>> ELSE BTreeIter(map)

\* DictBuilder::build writes every entry of the map to the fst builder
DictBuilderBuild(map) == BTreeIter(map)

(***************************************************************************)
(* fst::Map: the entries of a segment, in stream order.                    *)
(***************************************************************************)
\* fst::MapBuilder accepts keys in strictly ascending order only
FstOrdered(entries) ==
  \A i \in 1..(Len(entries) - 1) : TermLess(entries[i].term, entries[i + 1].term)

\* Option<u64>
None == [some |-> FALSE, val |-> 0]
Some(v) == [some |-> TRUE, val |-> v]

\* fst::Map::get
FstGet(map, term) ==
  IF \E i \in 1..Len(map) : map[i].term = term
    THEN Some(map[CHOOSE i \in 1..Len(map) : map[i].term = term].freq)
    ELSE None

FstHas(map, term) == \E i \in 1..Len(map) : map[i].term = term

FstKeys(map) == {map[i].term : i \in 1..Len(map)}

(***************************************************************************)
(* StoredDict: a memory-mapped segment file.  A handle keeps its path and   *)
(* the contents the file had when it was mapped.                           *)
(***************************************************************************)
StoredDictOpen(fs, path) == [path |-> path, map |-> fs[path]]

\* what a file holds after its last written record when the writer stopped
\* before fst's MapBuilder::finish completed: not a record of any map
Torn == [term |-> <<>>, freq |-> 0]

\* fst::Map::new accepts the contents of the file
FileComplete(entries) == \A i \in 1..Len(entries) : entries[i] # Torn

\* a file abandoned after `kept` of the records were written
PartialFile(entries, kept) == Append(SubSeq(entries, 1, kept), Torn)

\* creating and writing the file `path` of the directory
WriteFile(fs, path, entries) ==
  [f \in DOMAIN fs \cup {path} |-> IF f = path THEN entries ELSE fs[f]]

(***************************************************************************)
(* MergePointer: a cursor over the stream of one input segment.            *)
(***************************************************************************)
MergePointerNew == [term |-> <<>>, value |-> 0, pos |-> 0, is_finished |-> FALSE]

MergePointerAdvance(p, map) ==
  IF p.pos < Len(map)
    THEN [term |-> map[p.pos + 1].term, value |-> map[p.pos + 1].freq,
          pos |-> p.pos + 1, is_finished |-> FALSE]
    ELSE [p EXCEPT !.is_finished = TRUE]

\* variant: the scan stops at the first unfinished pointer
MinPointerFirst(pointers) ==
  CHOOSE i \in 1..Len(pointers) :
    /\ ~pointers[i].is_finished
    /\ \A j \in 1..(i - 1) : pointers[j].is_finished

\* the pointer the scan of lines 113-125 selects: the first unfinished one
\* that no other unfinished pointer is strictly below
MinPointer(pointers) ==
  LET live == {i \in 1..Len(pointers) : ~pointers[i].is_finished}
      least == {i \in live :
                  \A j \in live : ~TermLess(pointers[j].term, pointers[i].term)}
  IN CHOOSE i \in least : \A j \in least : i <= j

RECURSIVE SumSeq(_)
SumSeq(s) == IF s = <<>> THEN 0 ELSE Head(s) + SumSeq(Tail(s))

\* variant: the comparison of line 136 is < instead of ==
AtTermBelow(p, term) == ~p.is_finished /\ TermLess(p.term, term)

\* the pointers lines 131-140 add up and advance in one round
AtTerm(p, term) == ~p.is_finished /\ p.term = term

\* variant: only the selected pointer's value is emitted, not the sum
RoundFreqMinOnly(pointers, term) == pointers[MinPointer(pointers)].value

\* lines 129-140: the count emitted for the round's term
RoundFreq(pointers, term) ==
  SumSeq([i \in 1..Len(pointers) |->
            IF AtTerm(pointers[i], term) THEN pointers[i].value ELSE 0])

RECURSIVE MergeLoop(_, _, _)
MergeLoop(pointers, maps, out) ==
  IF \A i \in 1..Len(pointers) : pointers[i].is_finished THEN out
  ELSE LET term == pointers[MinPointer(pointers)].term
           freq == RoundFreq(pointers, term)
           next == [i \in 1..Len(pointers) |->
                      IF AtTerm(pointers[i], term)
                        THEN MergePointerAdvance(pointers[i], maps[i])
                        ELSE pointers[i]]
       IN MergeLoop(next, maps, Append(out, [term |-> term, freq |-> freq]))

\* StoredDict::merge: the entries written to the merged segment
StoredDictMerge(maps) ==
  MergeLoop([i \in 1..Len(maps) |-> MergePointerAdvance(MergePointerNew, maps[i])],
            maps, <<>>)

(***************************************************************************)
(* TermDict: pure parts of its methods.                                    *)
(***************************************************************************)
\* variant: every length is the number of characters
AdmittedByChars(term) ==
  /\ ~(Len(term) <= 1)
  /\ ~(Len(term) > 100)
  /\ ~(\E i \in 1..Len(term) : term[i] = 32)
  /\ ~(2 * CountPunctuation(term) > Len(term))
  /\ ~(4 * CountNonAlphabetic(term) > Len(term))

\* TermDict::insert, lines 205-229: TRUE when the term reaches the builder.
\* count as f64 / len as f64 > 0.5 is 2 * count > len, > 0.25 is 4 * count > len
Admitted(term) ==
  /\ ~(StrLen(term) <= 1)
  /\ ~(StrLen(term) > 100)
  /\ ~(\E i \in 1..Len(term) : term[i] = 32)
  /\ ~(2 * CountPunctuation(term) > StrLen(term))
  /\ ~(4 * CountNonAlphabetic(term) > StrLen(term))

\* the loop of TermDict::freq over the open segments, lines 312-319
RECURSIVE FreqLoop(_, _)
FreqLoop(st, term) ==
  IF st = <<>> THEN None
  ELSE LET freqs == FreqLoop(SubSeq(st, 1, Len(st) - 1), term)
           got == FstGet(st[Len(st)].map, term)
       IN IF got.some
            THEN (IF freqs.some THEN Some(freqs.val + got.val) ELSE Some(got.val))
            ELSE freqs

\* variant: a later segment's count replaces the running sum
FreqLastSegment(st, term) ==
  LET holders == {i \in 1..Len(st) : FstGet(st[i].map, term).some}
  IN IF holders = {} THEN None
     ELSE FstGet(st[CHOOSE i \in holders : \A j \in holders : j <= i].map, term)

\* variant: the count still in the builder is added to the stored counts
FreqSeesBuilder(st, term) ==
  IF term \in DOMAIN builder
    THEN Some(FreqLoop(st, term).val + builder[term])
    ELSE FreqLoop(st, term)

\* TermDict::freq
Freq(st, term) == FreqLoop(st, term)

\* TermDict::terms
RECURSIVE Terms(_)
Terms(st) ==
  IF st = <<>> THEN <<>>
  ELSE [i \in 1..Len(Head(st).map) |-> Head(st).map[i].term] \o Terms(Tail(st))

\* fst::automaton::Levenshtein::new(term, max_edit_distance), line 396: the
\* automaton reads a key character by character; its state is the row of
\* edit distances between the key read so far and every prefix of the
\* query, each capped at max_edit_distance + 1
Min(a, b) == IF a <= b THEN a ELSE b

LevStart(query, k) == [i \in 1..(Len(query) + 1) |-> Min(i - 1, k + 1)]

RECURSIVE LevRow(_, _, _, _, _)
LevRow(query, k, row, c, acc) ==
  IF Len(acc) = Len(row) THEN acc
  ELSE LET i == Len(acc)
           sub == row[i] + (IF query[i] = c THEN 0 ELSE 1)
           del == row[i + 1] + 1
           ins == acc[i] + 1
       IN LevRow(query, k, row, c,
                 Append(acc, Min(k + 1, Min(sub, Min(del, ins)))))

LevStep(query, k, row, c) == LevRow(query, k, row, c, <<Min(k + 1, row[1] + 1)>>)

RECURSIVE LevRun(_, _, _, _)
LevRun(query, k, row, key) ==
  IF key = <<>> THEN row
  ELSE LevRun(query, k, LevStep(query, k, row, Head(key)), Tail(key))

\* the automaton is in a match state after the whole key
LevenshteinAccepts(query, k, key) ==
  LevRun(query, k, LevStart(query, k), key)[Len(query) + 1] <= k

\* the edit distances search is called with (spec 4.1)
EditDistances == 0..2

\* the terms search is called with
T_ba == <<98, 97>>                    \* "ba"

SearchTerms == {T_a, T_ba, T_e}

\* the keys the segments of the model hold
SegmentKeys == {T_bar, T_e, T_ee1}

\* the automata of the calls explored and their verdict on those keys,
\* computed once
AutomatonVerdicts ==
  [query \in SearchTerms |->
     [k \in EditDistances |->
        [key \in SegmentKeys |-> LevenshteinAccepts(query, k, key)]]]

Accepts(query, k, key) ==
  IF query \in SearchTerms /\ k \in EditDistances /\ key \in SegmentKeys
    THEN AutomatonVerdicts[query][k][key]
    ELSE LevenshteinAccepts(query, k, key)

\* stored.map.search(automaton).into_stream().into_str_keys(): the keys of
\* one segment the automaton accepts, in key order
RECURSIVE SearchMap(_, _, _)
SearchMap(map, query, k) ==
  IF map = <<>> THEN <<>>
  ELSE (IF Accepts(query, k, Head(map).term) THEN <<Head(map).term>> ELSE <<>>)
         \o SearchMap(Tail(map), query, k)

RECURSIVE SearchLoop(_, _, _)
SearchLoop(st, query, k) ==
  IF st = <<>> THEN <<>>
  ELSE SearchMap(Head(st).map, query, k) \o SearchLoop(Tail(st), query, k)

\* variant: the keys of the builder are searched as well
SearchWithBuilder(st, query, k) ==
  SearchLoop(st, query, k) \o SearchMap(DictBuilderBuild(builder), query, k)

\* TermDict::search, both `if let Ok` taken
Search(st, query, k) == SearchLoop(st, query, k)

\* the counts the first loop of prune streams, segment after segment
RECURSIVE StreamFreqs(_)
StreamFreqs(st) ==
  IF st = <<>> THEN <<>>
  ELSE [i \in 1..Len(Head(st).map) |-> Head(st).map[i].freq] \o StreamFreqs(Tail(st))

\* BinaryHeap<u64>, kept as its ascending sorted vector: the greatest
\* element, the one peek and peek_mut give, is the last
HeapPush(h, v) ==
  LET below == SelectSeq(h, LAMBDA x : x <= v)
      above == SelectSeq(h, LAMBDA x : x > v)
  IN below \o <<v>> \o above

\* variant: once the heap is full no larger count replaces its top
HeapOfferNoReplace(h, freq, n) == IF Len(h) < n THEN HeapPush(h, freq) ELSE h

\* lines 331-337, one streamed count
HeapOffer(h, freq, n) ==
  IF Len(h) < n THEN HeapPush(h, freq)
  ELSE IF h # <<>> /\ freq > h[Len(h)] THEN [h EXCEPT ![Len(h)] = freq]
  ELSE h

RECURSIVE TopTermFreqs(_, _, _)
TopTermFreqs(freqs, n, h) ==
  IF freqs = <<>> THEN h
  ELSE TopTermFreqs(Tail(freqs), n, HeapOffer(h, Head(freqs), n))

\* variant: the threshold is taken from the front of the sorted vector
PruneLowestFirst(h) == h[1]

\* line 345: into_sorted_vec().pop() is the last of the ascending vector
PruneLowest(h) == h[Len(h)]

\* variant: an entry at the threshold is dropped as well
PruneKeepStrict(freq, lowest) == freq > lowest

\* variant: the comparison of line 361 is reversed
PruneKeepBelow(freq, lowest) == freq <= lowest

\* line 361
PruneKeep(freq, lowest) == freq >= lowest

PruneEntries(map, lowest) == SelectSeq(map, LAMBDA e : PruneKeep(e.freq, lowest))

\* variant: no file is unlinked
GcKeepsAll(fs, dicts) == fs

\* TermDict::gc: the files left after unlinking every *.dict file whose
\* stem, parsed as an id, is not in dicts
Gc(fs, dicts) ==
  LET listed == {dicts[i] : i \in 1..Len(dicts)}
      removed == {f \in DOMAIN fs :
                    Extension(f) = DictExtension /\ ParseUuid(FileStem(f)) \notin listed}
  IN [f \in DOMAIN fs \ removed |-> fs[f]]

\* variant: the document is written before the newest id is pushed
SaveMetaBeforePush(dicts) ==
  [dicts |-> [i \in 1..(Len(dicts) - 1) |-> UuidToString(dicts[i])]]

\* TermDict::save_meta: the document serde_json writes to meta.json
SaveMeta(dicts) == [dicts |-> [i \in 1..Len(dicts) |-> UuidToString(dicts[i])]]

\* serde_json::from_reader in TermDict::open
LoadMeta(doc) == [i \in 1..Len(doc.dicts) |-> ParseUuid(doc.dicts[i])]

(***************************************************************************)
(* The dictionaries handed to TermDict::merge as `other`: each is the list *)
(* of segments of a dictionary whose insertions are all committed.         *)
(***************************************************************************)
Counts(nbar, ne, nee1) ==
  [t \in {x \in {T_bar, T_e, T_ee1} :
            (x = T_bar /\ nbar > 0) \/ (x = T_e /\ ne > 0) \/ (x = T_ee1 /\ nee1 > 0)} |->
     IF t = T_bar THEN nbar ELSE IF t = T_e THEN ne ELSE nee1]

\* a committed segment of `other`, in the directory of `other`
OtherSegment(name, nbar, ne, nee1) ==
  [path |-> name, map |-> DictBuilderBuild(Counts(nbar, ne, nee1))]

OtherDicts ==
  << <<OtherSegment(<<111, 49>>, 1, 2, 3)>>,
     <<OtherSegment(<<111, 50>>, 1, 0, 0), OtherSegment(<<111, 51>>, 1, 1, 0)>>,
     <<OtherSegment(<<111, 52>>, 1, 1, 0)>> >>

(***************************************************************************)
(* State machine.                                                          *)
(***************************************************************************)
\* no admitted insert call yet; a term outside the domain counts 0
NoCalls == [t \in {} |-> 0]

CallsOf(calls, t) == IF t \in DOMAIN calls THEN calls[t] ELSE 0

\* the last call: its name, its numeric argument, how it returned, and the
\* internal step that failed in it ("none" if every step succeeded)
Op(name, n, res, rep) ==
  [op |-> name, n |-> n, res |-> res, rep |-> rep, failed |-> "none"]

FailedOp(name, n, res, step) ==
  [op |-> name, n |-> n, res |-> res, rep |-> FALSE, failed |-> step]

RECURSIVE WriteAll(_, _, _)
WriteAll(fs, paths, contents) ==
  IF paths = <<>> THEN fs
  ELSE WriteAll(WriteFile(fs, Head(paths), Head(contents)), Tail(paths), Tail(contents))

\* the callers that share a reference to the dictionary, and a caller
\* that is in no call
Readers == {"r1", "r2"}

Idle == [call |-> "idle", term |-> <<>>, k |-> 0, pos |-> 0, freqs |-> None, res |-> <<>>]

\* TermDict::open on a path that does not exist
\* no call of StoredDict::merge is being followed step by step
NoMerge == [phase |-> "none", maps |-> <<>>, pointers |-> <<>>, out |-> <<>>]

Init ==
  /\ builder = DictBuilderNew
  /\ stored = <<>>
  /\ metadata = <<>>
  /\ files = [f \in {} |-> <<>>]
  /\ metaFile = SaveMeta(<<>>)
  /\ nextUuid = 1
  /\ inserted = 0
  /\ mergeIns = 0
  /\ admittedCalls = NoCalls
  /\ lastOp = Op("open", 0, "ok", FALSE)
  /\ readers = [r \in Readers |-> Idle]
  /\ merger = NoMerge

\* the terms of the universe that pass the filter of TermDict::insert
AdmittedTerms == {t \in {u : u \in TermUniverse \cup FilterTerms} : Admitted(t)}

\* TermDict::insert
Insert(term) ==
  /\ term \in AdmittedTerms => inserted < MaxInserts
  /\ builder' =
       IF term \in AdmittedTerms THEN DictBuilderInsert(builder, term) ELSE builder
  /\ inserted' = IF term \in AdmittedTerms THEN inserted + 1 ELSE inserted
  /\ admittedCalls' =
       IF term \in AdmittedTerms
         THEN [t \in DOMAIN admittedCalls \cup {term} |->
                 CallsOf(admittedCalls, t) + (IF t = term THEN 1 ELSE 0)]
         ELSE admittedCalls
  /\ UNCHANGED <<readers, merger>>
  /\ lastOp' = Op("insert", 0,
                  IF term \in AdmittedTerms THEN "admitted" ELSE "rejected", FALSE)
  /\ UNCHANGED <<stored, metadata, files, metaFile, nextUuid, mergeIns>>

\* TermDict::commit, every step succeeding
Commit ==
  /\ nextUuid <= MaxUuid
  /\ LET uuid == nextUuid
         path == DictFileName(uuid)
         written == WriteFile(files, path, DictBuilderBuild(builder))
         dicts == Append(metadata, uuid)
     IN /\ builder' = DictBuilderNew
        /\ metadata' = dicts
        /\ metaFile' = SaveMeta(dicts)
        /\ stored' = Append(stored, StoredDictOpen(written, path))
        /\ files' = Gc(written, dicts)
        /\ nextUuid' = uuid + 1
  /\ admittedCalls' = NoCalls
  /\ UNCHANGED <<readers, merger>>
  /\ lastOp' = Op("commit", 0, "ok", FALSE)
  /\ UNCHANGED <<inserted, mergeIns>>

\* TermDict::merge_dicts, every step succeeding
MergedEntries(st) == StoredDictMerge([i \in 1..Len(st) |-> st[i].map])

\* variant: the catalog is not cleared before the push
MergeDictsMetadataNoClear(dicts, uuid) == Append(dicts, uuid)

\* the catalog after dicts.clear() and dicts.push(uuid)
MergeDictsMetadata(dicts, uuid) == <<uuid>>

\* variant: a single segment is merged as well
MergeDictsSkipsEmpty(st) == Len(st) = 0

\* the test of line 289
MergeDictsSkips(st) == Len(st) <= 1

MergeDicts ==
  IF MergeDictsSkips(stored)
    THEN /\ UNCHANGED <<readers, merger>>
         /\ lastOp' = Op("merge_dicts", 0, "noop", FALSE)
         /\ UNCHANGED <<builder, stored, metadata, files, metaFile, nextUuid,
                        inserted, mergeIns, admittedCalls>>
    ELSE /\ nextUuid <= MaxUuid
         /\ LET uuid == nextUuid
                path == DictFileName(uuid)
                written == WriteFile(files, path, MergedEntries(stored))
            IN /\ files' = written
               /\ metadata' = MergeDictsMetadata(metadata, uuid)
               /\ metaFile' = SaveMeta(MergeDictsMetadata(metadata, uuid))
               /\ stored' = <<StoredDictOpen(written, path)>>
               /\ nextUuid' = uuid + 1
         /\ UNCHANGED <<readers, merger>>
         /\ lastOp' = Op("merge_dicts", 0, "ok", FALSE)
         /\ UNCHANGED <<builder, inserted, mergeIns, admittedCalls>>

\* TermDict::prune; rep records that the call before it was a completed
\* prune with the same top_n_terms
PruneHeap(st, n) == TopTermFreqs(StreamFreqs(st), n, <<>>)

PruneAgain(n) == lastOp.op = "prune" /\ lastOp.n = n /\ lastOp.res \in {"ok", "noop"}

\* variant: the test is off by one
PruneSkipsBelow(heap, n) == Len(heap) + 1 < n

\* variant: the test is <= instead of <
PruneSkipsAtMost(heap, n) == Len(heap) <= n

\* the test of line 341
PruneSkips(heap, n) == Len(heap) < n

Prune(n) ==
  LET heap == PruneHeap(stored, n)
  IN IF PruneSkips(heap, n)
       THEN /\ UNCHANGED <<readers, merger>>
            /\ lastOp' = Op("prune", n, "noop", PruneAgain(n))
            /\ UNCHANGED <<builder, stored, metadata, files, metaFile, nextUuid,
                           inserted, mergeIns, admittedCalls>>
     ELSE IF heap = <<>>
       \* pop() of the empty vector is None and unwrap() panics
       THEN /\ UNCHANGED <<readers, merger>>
            /\ lastOp' = Op("prune", n, "panic", FALSE)
            /\ UNCHANGED <<builder, stored, metadata, files, metaFile, nextUuid,
                           inserted, mergeIns, admittedCalls>>
     ELSE /\ nextUuid <= MaxUuid
          /\ LET lowest == PruneLowest(heap)
                 dicts == [i \in 1..Len(stored) |-> nextUuid + i - 1]
                 paths == [i \in 1..Len(stored) |-> DictFileName(dicts[i])]
                 written ==
                   WriteAll(files, paths,
                            [i \in 1..Len(stored) |-> PruneEntries(stored[i].map, lowest)])
             IN /\ files' = written
                /\ stored' = [i \in 1..Len(stored) |-> StoredDictOpen(written, paths[i])]
                /\ metadata' = dicts
                /\ metaFile' = SaveMeta(dicts)
                /\ nextUuid' = nextUuid + Len(stored)
          /\ UNCHANGED <<readers, merger>>
          /\ lastOp' = Op("prune", n, "ok", PruneAgain(n))
          /\ UNCHANGED <<builder, inserted, mergeIns, admittedCalls>>

\* variant: the renamed files are not opened
MergeInStoredNoOpen(st, fs, paths) == st

\* TermDict::merge (merge-in), every step succeeding; k selects `other`.
\* rename moves each file of `other` into the directory under a new name
MergeInStored(st, fs, paths) ==
  st \o [i \in 1..Len(paths) |-> StoredDictOpen(fs, paths[i])]

MergeIn(k) ==
  LET other == OtherDicts[k]
      uuids == [i \in 1..Len(other) |-> nextUuid + i - 1]
      paths == [i \in 1..Len(other) |-> DictFileName(uuids[i])]
      renamed == WriteAll(files, paths, [i \in 1..Len(other) |-> other[i].map])
      dicts == metadata \o uuids
  IN /\ mergeIns < MaxMergeIn
     /\ nextUuid + Len(other) - 1 <= MaxUuid
     /\ files' = renamed
     /\ metadata' = dicts
     /\ metaFile' = SaveMeta(dicts)
     /\ stored' = MergeInStored(stored, renamed, paths)
     /\ nextUuid' = nextUuid + Len(other)
     /\ mergeIns' = mergeIns + 1
     /\ UNCHANGED <<readers, merger>>
     /\ lastOp' = Op("merge", k, "ok", FALSE)
     /\ UNCHANGED <<builder, inserted, admittedCalls>>

\* dropping the TermDict and TermDict::open on the existing path
OpenStored(dicts, fs) ==
  [i \in 1..Len(dicts) |-> StoredDictOpen(fs, DictFileName(dicts[i]))]

\* serde_json and StoredDict::open succeed: every listed text is an id and
\* its file exists
CanOpen(dicts, fs) ==
  \A i \in 1..Len(dicts) :
    /\ dicts[i] >= 0
    /\ DictFileName(dicts[i]) \in DOMAIN fs
    /\ FileComplete(fs[DictFileName(dicts[i])])

Reopen ==
  LET dicts == LoadMeta(metaFile)
  IN /\ CanOpen(dicts, files)
     /\ builder' = DictBuilderNew
     /\ metadata' = dicts
     /\ stored' = OpenStored(dicts, files)
  /\ admittedCalls' = NoCalls
  /\ UNCHANGED <<readers, merger>>
  /\ lastOp' = Op("reopen", 0, "ok", FALSE)
  /\ UNCHANGED <<files, metaFile, nextUuid, inserted, mergeIns>>

\* the process stops inside TermDict::commit after DictBuilder::build has
\* written the new file (line 239) and before save_meta (line 242); the
\* directory is then opened again
CrashInCommit ==
  /\ nextUuid <= MaxUuid
  /\ LET written == WriteFile(files, DictFileName(nextUuid), DictBuilderBuild(builder))
         dicts == LoadMeta(metaFile)
     IN /\ CanOpen(dicts, written)
        /\ files' = written
        /\ stored' = OpenStored(dicts, written)
        /\ metadata' = dicts
  /\ builder' = DictBuilderNew
  /\ nextUuid' = nextUuid + 1
  /\ admittedCalls' = NoCalls
  /\ UNCHANGED <<readers, merger>>
  /\ lastOp' = Op("commit", 0, "crash", FALSE)
  /\ UNCHANGED <<metaFile, inserted, mergeIns>>

Next ==
  \/ \E term \in TermUniverse : Insert(term)
  \/ Commit
  \/ CrashInCommit
  \/ MergeDicts
  \/ \E n \in 0..MaxTopN : Prune(n)
  \/ \E k \in 1..Len(OtherDicts) : MergeIn(k)
  \/ Reopen

Spec == Init /\ [][Next]_vars

(***************************************************************************)
(* Calls in which an internal step fails.                                  *)
(***************************************************************************)
\* a TermDict value exists: the last TermDict::open returned Ok
Opened == lastOp.res # "crash_noopen"

\* TermDict::merge_dicts when StoredDict::merge or save_meta returns Err.
\* self.stored was taken at line 296 before StoredDict::merge ran and the
\* taken handles are dropped on the error path.
\*   "create":    OpenOptions::open of the output fails (line 91)
\*   "write":     builder.insert or builder.finish fails after `kept`
\*                records reached the output (lines 142, 146)
\*   "save_meta": OpenOptions::open of meta.json fails (line 280), after the
\*                catalog was cleared and the new id pushed
MergeDictsFails(step, kept) ==
  /\ Opened
  /\ Len(stored) > 1
  /\ nextUuid <= MaxUuid
  /\ LET uuid == nextUuid
         path == DictFileName(uuid)
         merged == MergedEntries(stored)
     IN /\ kept <= Len(merged)
        /\ step = "write" => kept < Len(merged)
        /\ step = "save_meta" => kept = Len(merged)
        /\ step = "create" => kept = 0
        /\ files' = IF step = "create" THEN files
                    ELSE IF step = "write"
                      THEN WriteFile(files, path, PartialFile(merged, kept))
                    ELSE WriteFile(files, path, merged)
        /\ metadata' = IF step = "save_meta" THEN MergeDictsMetadata(metadata, uuid)
                       ELSE metadata
        /\ stored' = <<>>
        /\ nextUuid' = uuid + 1
  /\ UNCHANGED <<readers, merger>>
  /\ lastOp' = FailedOp("merge_dicts", 0, "err", step)
  /\ UNCHANGED <<builder, metaFile, inserted, mergeIns, admittedCalls>>

\* TermDict::prune when the rewrite of segment j returns Err.  The catalog
\* was cleared at line 347; the segments before j are rewritten, pushed and
\* their handles replaced.
\*   "create": OpenOptions::open of the new file fails (line 353)
\*   "write":  builder.insert fails after `kept` records (line 362)
\*   "finish": builder.finish fails (line 368), after the id of the new
\*             file was pushed at line 366
PruneFails(n, j, step, kept) ==
  LET heap == PruneHeap(stored, n)
      lowest == PruneLowest(heap)
      dicts == [i \in 1..j |-> nextUuid + i - 1]
      paths == [i \in 1..j |-> DictFileName(dicts[i])]
      pruned == [i \in 1..j |-> PruneEntries(stored[i].map, lowest)]
      done == WriteAll(files, SubSeq(paths, 1, j - 1), SubSeq(pruned, 1, j - 1))
  IN /\ Opened
     /\ ~PruneSkips(heap, n)
     /\ heap # <<>>
     /\ j \in 1..Len(stored)
     /\ nextUuid <= MaxUuid
     /\ step = "create" => kept = 0
     /\ step = "write" => kept < Len(pruned[j])
     /\ step = "finish" => kept = Len(pruned[j])
     /\ files' = IF step = "create" THEN done
                 ELSE WriteFile(done, paths[j], PartialFile(pruned[j], kept))
     /\ stored' = [i \in 1..Len(stored) |->
                     IF i < j THEN StoredDictOpen(done, paths[i]) ELSE stored[i]]
     /\ metadata' = IF step = "finish" THEN dicts ELSE SubSeq(dicts, 1, j - 1)
     /\ nextUuid' = nextUuid + j
     /\ UNCHANGED <<readers, merger>>
     /\ lastOp' = FailedOp("prune", n, "err", step)
     /\ UNCHANGED <<builder, metaFile, inserted, mergeIns, admittedCalls>>

\* meta.json after OpenOptions::open with truncate(true) and before
\* serde_json::to_writer_pretty wrote anything: an empty file
\* TermDict::commit when one of its steps returns Err.  The builder was
\* taken at line 235 and is dropped with the call.
\*   "create":    OpenOptions::open of the new file fails (line 56)
\*   "write":     builder.insert fails after `kept` records (line 63)
\*   "save_meta": OpenOptions::open of meta.json fails (line 281), after the
\*                new id was pushed at line 241
\*   "gc":        read_dir fails (line 253), after the segment was pushed
CommitFails(step, kept) ==
  /\ Opened
  /\ nextUuid <= MaxUuid
  /\ LET uuid == nextUuid
         path == DictFileName(uuid)
         entries == DictBuilderBuild(builder)
         written == WriteFile(files, path, entries)
         dicts == Append(metadata, uuid)
     IN /\ step = "write" => kept < Len(entries)
        /\ step # "write" => kept = 0
        /\ files' = IF step = "create" THEN files
                    ELSE IF step = "write"
                      THEN WriteFile(files, path, PartialFile(entries, kept))
                    ELSE written
        /\ metadata' = IF step \in {"save_meta", "gc"} THEN dicts ELSE metadata
        /\ metaFile' = IF step = "gc" THEN SaveMeta(dicts) ELSE metaFile
        /\ stored' = IF step = "gc" THEN Append(stored, StoredDictOpen(written, path))
                     ELSE stored
        /\ nextUuid' = uuid + 1
  /\ builder' = DictBuilderNew
  /\ admittedCalls' = NoCalls
  /\ UNCHANGED <<readers, merger>>
  /\ lastOp' = FailedOp("commit", 0, "err", step)
  /\ UNCHANGED <<inserted, mergeIns>>

TruncatedMeta == [len |-> 0]

\* serde_json::from_reader returns Ok: the document has the field `dicts`
MetaParses(doc) == "dicts" \in DOMAIN doc

\* the process stops inside the save_meta called by TermDict::commit, after
\* meta.json was truncated (lines 277-281) and before the catalog was
\* written (line 283); the directory is then opened again and
\* serde_json::from_reader (line 173) returns Err on the empty file, so no
\* TermDict value exists afterwards
CrashInSaveMeta ==
  /\ Opened
  /\ nextUuid <= MaxUuid
  /\ files' = WriteFile(files, DictFileName(nextUuid), DictBuilderBuild(builder))
  /\ metaFile' = TruncatedMeta
  /\ ~MetaParses(metaFile')
  /\ builder' = DictBuilderNew
  /\ stored' = <<>>
  /\ metadata' = <<>>
  /\ nextUuid' = nextUuid + 1
  /\ admittedCalls' = NoCalls
  /\ UNCHANGED <<readers, merger>>
  /\ lastOp' = Op("commit", 0, "crash_noopen", FALSE)
  /\ UNCHANGED <<inserted, mergeIns>>

\* gc when read_dir yields Err for the entry of file `skipped`:
\* filter_map(|e| e.ok()) drops that entry (line 254), so the file is not
\* examined and stays
GcSkipping(fs, dicts, skipped) ==
  [f \in DOMAIN Gc(fs, dicts) \cup {skipped} |-> fs[f]]

\* TermDict::commit in which the directory iteration of gc fails for one
\* entry; gc and commit return Ok
CommitGcSkipsEntry(skipped) ==
  /\ Opened
  /\ nextUuid <= MaxUuid
  /\ LET uuid == nextUuid
         path == DictFileName(uuid)
         written == WriteFile(files, path, DictBuilderBuild(builder))
         dicts == Append(metadata, uuid)
     IN /\ skipped \in DOMAIN written
        /\ builder' = DictBuilderNew
        /\ metadata' = dicts
        /\ metaFile' = SaveMeta(dicts)
        /\ stored' = Append(stored, StoredDictOpen(written, path))
        /\ files' = GcSkipping(written, dicts, skipped)
        /\ nextUuid' = uuid + 1
  /\ admittedCalls' = NoCalls
  /\ UNCHANGED <<readers, merger>>
  /\ lastOp' = FailedOp("commit", 0, "ok", "read_dir")
  /\ UNCHANGED <<inserted, mergeIns>>

\* TermDict::search(term, k) in which Levenshtein::new returns Err (the
\* automaton of the term is too large for the crate): the `if let Ok` of
\* line 396 skips every segment and the call returns the empty list
SearchAutomatonErr(k) ==
  /\ Opened
  /\ UNCHANGED <<readers, merger>>
  /\ lastOp' = FailedOp("search", k, "ok", "automaton")
  /\ UNCHANGED <<builder, stored, metadata, files, metaFile, nextUuid,
                 inserted, mergeIns, admittedCalls>>

NextFail ==
  \/ Opened /\ \E term \in TermUniverse : Insert(term)
  \/ Opened /\ Commit
  \/ Opened /\ CrashInCommit
  \/ Opened /\ MergeDicts
  \/ Opened /\ \E n \in 0..MaxTopN : Prune(n)
  \/ Opened /\ \E k \in 1..Len(OtherDicts) : MergeIn(k)
  \/ Opened /\ Reopen
  \/ \E step \in {"create", "write", "save_meta"} :
       \E kept \in 0..MaxKept : MergeDictsFails(step, kept)
  \/ \E n \in 1..MaxTopN : \E j \in 1..MaxUuid :
       \E step \in {"create", "write", "finish"} :
         \E kept \in 0..MaxKept : PruneFails(n, j, step, kept)
  \/ \E step \in {"create", "write", "save_meta", "gc"} : \E kept \in 0..MaxKept : CommitFails(step, kept)
  \/ CrashInSaveMeta
  \/ \E skipped \in DOMAIN files \cup {DictFileName(nextUuid)} :
       CommitGcSkipsEntry(skipped)
  \/ \E k \in EditDistances : SearchAutomatonErr(k)

SpecFail == Init /\ [][NextFail]_vars

(***************************************************************************)
(* freq, terms and search called concurrently through shared references,   *)
(* each call advancing one segment at a time; the calls that take          *)
(* &mut self run only while no reader is inside a call.                    *)
(***************************************************************************)
\* the read calls explored
ReadCalls ==
  {[call |-> "freq", term |-> T_bar, k |-> 0],
   [call |-> "terms", term |-> <<>>, k |-> 0],
   [call |-> "search", term |-> T_ba, k |-> 2]}

\* variant: the count of a later segment replaces the running sum
FreqStepOverwrite(freqs, map, term) ==
  IF FstGet(map, term).some THEN FstGet(map, term) ELSE freqs

\* one iteration of the loop of TermDict::freq
FreqStep(freqs, map, term) ==
  IF FstGet(map, term).some
    THEN (IF freqs.some THEN Some(freqs.val + FstGet(map, term).val)
          ELSE FstGet(map, term))
    ELSE freqs

\* one iteration of the loop of TermDict::terms
TermsStep(res, map) == res \o [i \in 1..Len(map) |-> map[i].term]

\* one iteration of the loop of TermDict::search
SearchStep(res, map, term, k) == res \o SearchMap(map, term, k)

AllIdle == \A r \in Readers : readers[r].call = "idle"

\* the local variables of the call are initialised
BeginRead(r, c) ==
  /\ readers[r].call = "idle"
  /\ readers' = [readers EXCEPT ![r] =
                   [call |-> c.call, term |-> c.term, k |-> c.k, pos |-> 1,
                    freqs |-> None, res |-> <<>>]]
  /\ UNCHANGED <<builder, stored, metadata, files, metaFile, nextUuid,
                 inserted, mergeIns, admittedCalls, lastOp, merger>>

\* the loop body runs for the next segment of self.stored
ReadSegment(r) ==
  LET rd == readers[r]
  IN /\ rd.call # "idle"
     /\ rd.pos <= Len(stored)
     /\ readers' = [readers EXCEPT ![r] =
                      [rd EXCEPT
                         !.pos = rd.pos + 1,
                         !.freqs = IF rd.call = "freq"
                                     THEN FreqStep(rd.freqs, stored[rd.pos].map, rd.term)
                                     ELSE rd.freqs,
                         !.res = IF rd.call = "terms"
                                   THEN TermsStep(rd.res, stored[rd.pos].map)
                                 ELSE IF rd.call = "search"
                                   THEN SearchStep(rd.res, stored[rd.pos].map, rd.term, rd.k)
                                 ELSE rd.res]]
     /\ UNCHANGED <<builder, stored, metadata, files, metaFile, nextUuid,
                    inserted, mergeIns, admittedCalls, lastOp, merger>>

\* the loop is over and the call is about to return its local result
Finished(rd) == rd.call # "idle" /\ rd.pos > Len(stored)

ReturnRead(r) ==
  /\ Finished(readers[r])
  /\ readers' = [readers EXCEPT ![r] = Idle]
  /\ UNCHANGED <<builder, stored, metadata, files, metaFile, nextUuid,
                 inserted, mergeIns, admittedCalls, lastOp, merger>>

NextReaders ==
  \/ AllIdle /\ \E term \in TermUniverse : Insert(term)
  \/ AllIdle /\ \E k \in 1..Len(OtherDicts) : MergeIn(k)
  \/ \E r \in Readers : \E c \in ReadCalls : BeginRead(r, c)
  \/ \E r \in Readers : ReadSegment(r)
  \/ \E r \in Readers : ReturnRead(r)

SpecReaders == Init /\ [][NextReaders]_vars

(***************************************************************************)
(* StoredDict::merge, one loop iteration at a time.                        *)
(***************************************************************************)
MergeKeys == {T_bar, T_e, T_ee1}

MergeValues == {1, 2}

\* the segments a merge can be handed: each was written by DictBuilder::build
MergeInputs ==
  {DictBuilderBuild(b) : b \in UNION {[S -> MergeValues] : S \in SUBSET MergeKeys}}

MergeCalls == UNION {[1..n -> MergeInputs] : n \in 0..MaxMergeInputs}

\* the calls in which every count is 1: the control flow of the loop reads
\* the keys only
MergeKeyCalls ==
  {maps \in MergeCalls :
     \A i \in 1..Len(maps) : \A j \in 1..Len(maps[i]) : maps[i][j].freq = 1}

\* StoredDict::merge has been called with one of `calls`, line 87
MergeCalled(calls) ==
  /\ builder = DictBuilderNew
  /\ stored = <<>>
  /\ metadata = <<>>
  /\ files = [f \in {} |-> <<>>]
  /\ metaFile = SaveMeta(<<>>)
  /\ nextUuid = 1
  /\ inserted = 0
  /\ mergeIns = 0
  /\ admittedCalls = NoCalls
  /\ lastOp = Op("open", 0, "ok", FALSE)
  /\ readers = [r \in Readers |-> Idle]
  /\ \E maps \in calls :
       merger = [phase |-> "start", maps |-> maps, pointers |-> <<>>, out |-> <<>>]

Unfinished(pointers) == {i \in 1..Len(pointers) : ~pointers[i].is_finished}

\* lines 96-104: one pointer per input, each advanced to its first entry
MergeStart ==
  /\ merger.phase = "start"
  /\ merger' = [merger EXCEPT
                  !.phase = "loop",
                  !.pointers = [i \in 1..Len(merger.maps) |->
                                  MergePointerAdvance(MergePointerNew, merger.maps[i])]]
  /\ UNCHANGED <<builder, stored, metadata, files, metaFile, nextUuid,
                 inserted, mergeIns, admittedCalls, lastOp, readers>>

\* lines 110-143: one iteration of the loop that does not break
MergeRound ==
  /\ merger.phase = "loop"
  /\ Unfinished(merger.pointers) # {}
  /\ LET pointers == merger.pointers
         term == pointers[MinPointer(pointers)].term
         freq == RoundFreq(pointers, term)
     IN merger' = [merger EXCEPT
                     !.pointers = [i \in 1..Len(pointers) |->
                                     IF AtTerm(pointers[i], term)
                                       THEN MergePointerAdvance(pointers[i], merger.maps[i])
                                       ELSE pointers[i]],
                     !.out = Append(merger.out, [term |-> term, freq |-> freq])]
  /\ UNCHANGED <<builder, stored, metadata, files, metaFile, nextUuid,
                 inserted, mergeIns, admittedCalls, lastOp, readers>>

\* lines 106-108 and 146: every pointer is finished, the loop breaks and the
\* builder is finished
MergeFinish ==
  /\ merger.phase = "loop"
  /\ Unfinished(merger.pointers) = {}
  /\ merger' = [merger EXCEPT !.phase = "done"]
  /\ UNCHANGED <<builder, stored, metadata, files, metaFile, nextUuid,
                 inserted, mergeIns, admittedCalls, lastOp, readers>>

NextMerge == MergeStart \/ MergeRound \/ MergeFinish

InitMerge == MergeCalled(MergeCalls)

SpecMerge == InitMerge /\ [][NextMerge]_vars

InitMergeKeys == MergeCalled(MergeKeyCalls)

\* the loop is sequential code of one thread: it keeps running
SpecMergeFair == InitMergeKeys /\ [][NextMerge]_vars /\ WF_vars(NextMerge)

(***************************************************************************)
(* The filter of TermDict::insert, tried on every term of FilterTerms: the *)
(* call is made on a dictionary whose builder is empty.                    *)
(***************************************************************************)
FilterCall(term) == builder = DictBuilderNew /\ Insert(term)

NextFilter == \E term \in FilterTerms : FilterCall(term)

SpecFilter == Init /\ [][NextFilter]_vars

(***************************************************************************)
(* Properties.                                                             *)
(***************************************************************************)
\* None counted as 0
FreqN(st, term) == Freq(st, term).val

Present(st, term) == Freq(st, term).some

\* the sum of two optional counts, None only if both are None
OptAdd(a, b) == IF a.some \/ b.some THEN Some(a.val + b.val) ELSE None

\* the entries of the open segments, segment by segment
Maps(st) == [i \in 1..Len(st) |-> st[i].map]

TermSet(st) == {Terms(st)[i] : i \in 1..Len(Terms(st))}

PairwiseDistinct(s) == \A i, j \in 1..Len(s) : i # j => s[i] # s[j]

C2_MergeDictsKeepsFreq ==
  [][lastOp'.op = "merge_dicts" =>
       \A t \in TermUniverse : Freq(stored', t) = Freq(stored, t)]_vars

\* a merge that summed the two counts of "bar"
C2_Witness ==
  /\ lastOp.op = "merge_dicts"
  /\ lastOp.res = "ok"
  /\ Len(stored) = 1
  /\ FstGet(stored[1].map, T_bar) = Some(2)
  /\ FstGet(stored[1].map, T_e) = Some(1)

\* C3: dropping the dictionary and opening the same path gives the same
\* number of segments and the same freq(t) for every term t.
C3_ReopenKeepsSegmentsAndFreq ==
  [][lastOp'.op = "reopen" =>
       /\ Len(stored') = Len(stored)
       /\ \A t \in TermUniverse : Freq(stored', t) = Freq(stored, t)]_vars

C3_Witness ==
  /\ lastOp.op = "reopen"
  /\ Len(stored) = 2
  /\ Present(stored, T_bar)

\* C4: insert changes only the builder: the catalog, the open segments and
\* the files are untouched and freq(u) is unchanged for every term u (an
\* insert that leaves the builder as it was too has changed no field of the
\* dictionary that freq could read).
C4_InsertTouchesOnlyBuilder ==
  [][lastOp'.op = "insert" =>
       /\ UNCHANGED <<stored, metadata, files, metaFile>>
       /\ \/ UNCHANGED builder
          \/ \A u \in TermUniverse : Freq(stored, u)' = Freq(stored, u)]_vars

C4_Witness ==
  /\ lastOp.op = "insert"
  /\ lastOp.res = "admitted"
  /\ T_bar \in DOMAIN builder
  /\ ~Present(stored, T_bar)

\* C5: after merge-in of `other`, freq(t) is the previous freq(t) plus the
\* freq(t) of `other`, and a merge_dicts that follows keeps that value.
C5_MergeInAddsFreq ==
  [][/\ lastOp'.op = "merge" =>
          \A t \in TermUniverse :
            Freq(stored', t) = OptAdd(Freq(stored, t), Freq(OtherDicts[lastOp'.n], t))
     /\ (lastOp.op = "merge" /\ lastOp'.op = "merge_dicts") =>
          \A t \in TermUniverse : Freq(stored', t) = Freq(stored, t)]_vars

C5_Witness ==
  /\ lastOp.op = "merge"
  /\ Len(stored) = 2
  /\ Freq(stored, T_bar) = Some(2)
  /\ Freq(stored, T_ee1) = Some(3)

\* C6: after a commit the stems of the *.dict files of the directory are
\* exactly the ids of the catalog.
DictStems ==
  {ParseUuid(FileStem(f)) : f \in {g \in DOMAIN files : Extension(g) = DictExtension}}

ClaimedInadmissible(t) ==
  \/ \E i \in 1..Len(t) : t[i] = 32
  \/ StrLen(t) <= 1
  \/ StrLen(t) > 100
  \/ 2 * CountPunctuation(t) > Len(t)
  \/ 4 * CountNonAlphabetic(t) > Len(t)

C7_NoInadmissibleTerm ==
  mergeIns = 0 =>
    \A t \in TermUniverse :
      ClaimedInadmissible(t) =>
        /\ t \notin DOMAIN builder
        /\ t \notin TermSet(stored)
        /\ ~Present(stored, t)

\* C8: after a prune that rewrote the segments, every present term was
\* present before and every remaining entry has a count >= the threshold.
C8_PruneOnlyDropsBelowThreshold ==
  [][(lastOp'.op = "prune" /\ lastOp'.res = "ok") =>
       LET lowest == PruneLowest(PruneHeap(stored, lastOp'.n))
       IN /\ \A t \in TermUniverse : Present(stored', t) => Present(stored, t)
          /\ \A i \in 1..Len(stored') :
               \A j \in 1..Len(stored'[i].map) : stored'[i].map[j].freq >= lowest]_vars

\* a prune that dropped entries: the replaced file holds more than the segment
C8_Witness ==
  /\ lastOp.op = "prune"
  /\ lastOp.res = "ok"
  /\ Len(stored) = 1
  /\ Len(stored[1].map) = 1
  /\ \E f \in DOMAIN files : Len(files[f]) = 3

C10_PruneIdempotent ==
  [][(lastOp'.op = "prune" /\ lastOp'.rep) => Maps(stored') = Maps(stored)]_vars

C10_Witness ==
  /\ lastOp.op = "prune"
  /\ lastOp.res = "ok"
  /\ lastOp.rep
  /\ Len(stored) = 1
  /\ stored[1].map # <<>>

\* C11: a merge_dicts that succeeds on two or more segments leaves a catalog
\* of exactly one id, an id that was never handed out, listed or the stem
\* of a file before, and exactly one open segment; after any merge_dicts
\* that returns Ok at most one segment is open.
C11_MergeDictsLeavesOneFreshSegment ==
  [][/\ (lastOp'.op = "merge_dicts" /\ lastOp'.res \in {"ok", "noop"}) =>
          Len(stored') <= 1
     /\ (lastOp'.op = "merge_dicts" /\ lastOp'.res = "ok" /\ Len(stored) >= 2) =>
          /\ Len(metadata') = 1
          /\ Len(stored') = 1
          /\ stored'[1].path = DictFileName(metadata'[1])
          /\ metadata'[1] >= nextUuid
          /\ metadata'[1] \notin DictStems
          /\ \A i \in 1..Len(metadata) : metadata'[1] # metadata[i]]_vars

\* a merge of two segments: the third id handed out is the only one listed
C11_Witness ==
  /\ lastOp.op = "merge_dicts"
  /\ lastOp.res = "ok"
  /\ metadata = <<3>>
  /\ Len(stored) = 1
  /\ Cardinality(DOMAIN files) = 3

\* C12: a merge_dicts that fails before the catalog is saved leaves the
\* catalog in memory, meta.json and the open segments as they were, and
\* freq(t) returns what it returned before, for every term t.
C12_FailedMergeDictsKeepsState ==
  [][(lastOp'.op = "merge_dicts" /\ lastOp'.res = "err") =>
       /\ UNCHANGED <<metadata, metaFile, stored>>
       /\ \A t \in TermUniverse : Freq(stored', t) = Freq(stored, t)]_vars

\* C13: when the process stops inside an operation before its save_meta
\* has completed, opening the directory again gives a dictionary in which
\* freq(t) is what it was before the operation, for every term t.
C13_CrashLosesWholeOperation ==
  [][lastOp'.res \in {"crash", "crash_noopen"} =>
       /\ lastOp'.res = "crash"
       /\ \A t \in TermUniverse : Freq(stored', t) = Freq(stored, t)]_vars

\* C14: after TermDict::open returned, also the open that follows a stop
\* of the process, no *.dict file of the directory has a stem that the
\* catalog does not list.
C14_OpenLeavesNoOrphan ==
  (lastOp.op = "reopen" \/ lastOp.res = "crash") =>
    DictStems \subseteq {metadata[i] : i \in 1..Len(metadata)}

\* C15: freq(t) is None exactly when no open segment holds t; otherwise it
\* is Some(s) with s the sum of the counts of t over the open segments that
\* hold it, and s >= 1.  Every count stored in a segment is >= 1, so
\* Some(0) is never returned.
SegmentsHolding(st, t) ==
  {i \in 1..Len(st) : \E j \in 1..Len(st[i].map) : st[i].map[j].term = t}

CountIn(map, t) ==
  IF \E j \in 1..Len(map) : map[j].term = t
    THEN map[CHOOSE j \in 1..Len(map) : map[j].term = t].freq
    ELSE 0

C15_FreqIsSumOverLiveSegments ==
  /\ \A t \in TermUniverse :
       LET s == SumSeq([i \in 1..Len(stored) |-> CountIn(stored[i].map, t)])
           holders == SegmentsHolding(stored, t)
           freq == Freq(stored, t)
       IN /\ freq = None <=> holders = {}
          /\ holders # {} => (freq = Some(s) /\ s >= 1)
          /\ freq # Some(0)
  /\ \A i \in 1..Len(stored) :
       \A j \in 1..Len(stored[i].map) : stored[i].map[j].freq >= 1

\* "bar" is held by two of three open segments and summed, the third
\* segment is empty and no segment holds "\u00e9\u00e91"
C15_Witness ==
  /\ Len(stored) = 3
  /\ Cardinality(SegmentsHolding(stored, T_bar)) = 2
  /\ Freq(stored, T_bar) = Some(2)
  /\ Freq(stored, T_e) = Some(1)
  /\ SegmentsHolding(stored, T_ee1) = {}
  /\ Freq(stored, T_ee1) = None

\* C16: search(term, k) for k in 0..2 returns exactly the keys of the open
\* segments whose Levenshtein distance to term is at most k: no other key,
\* every such key, and no key that is only in the builder.
RECURSIVE EditDistance(_, _)
EditDistance(a, b) ==
  IF a = <<>> THEN Len(b)
  ELSE IF b = <<>> THEN Len(a)
  ELSE Min(EditDistance(Tail(a), Tail(b)) + (IF Head(a) = Head(b) THEN 0 ELSE 1),
           Min(EditDistance(Tail(a), b) + 1, EditDistance(a, Tail(b)) + 1))

Distances ==
  [query \in SearchTerms |-> [key \in SegmentKeys |-> EditDistance(query, key)]]

Distance(query, key) ==
  IF query \in SearchTerms /\ key \in SegmentKeys
    THEN Distances[query][key]
    ELSE EditDistance(query, key)

SeqSet(s) == {s[i] : i \in 1..Len(s)}

C17_FailuresAreReturned ==
  lastOp.failed # "none" => lastOp.res = "err"

\* the *.dict files of the directory
DictFiles == {f \in DOMAIN files : Extension(f) = DictExtension}

\* C18: after a merge-in followed by merge_dicts the directory holds
\* exactly one *.dict file, the merged segment; the files of the segments
\* that were merged are gone.
C18_MergeLeavesOneFile ==
  [][(lastOp.op = "merge" /\ lastOp'.op = "merge_dicts") =>
       /\ Cardinality(DictFiles') = 1
       /\ DictStems' = {metadata'[i] : i \in 1..Len(metadata')}]_vars

\* C19: a step of freq, terms or search changes no dictionary state
\* (builder, catalog, open segments, files), and whatever the interleaving
\* of the concurrent calls, each call returns what the same call returns
\* when it runs alone on the dictionary.
ReadResult(rd) == IF rd.call = "freq" THEN rd.freqs ELSE rd.res

SequentialResult(rd) ==
  IF rd.call = "freq" THEN Freq(stored, rd.term)
  ELSE IF rd.call = "terms" THEN Terms(stored)
  ELSE Search(stored, rd.term, rd.k)

C19_ReadsAreIndependent ==
  [][readers' # readers =>
       /\ UNCHANGED <<builder, stored, metadata, files, metaFile>>
       /\ \A r \in Readers :
            (Finished(readers[r]) =>
               ReadResult(readers[r]) = SequentialResult(readers[r]))']_vars

\* a freq("bar") and a search("ba", 2) are both through the two segments,
\* having been started at different times
C19_Witness ==
  /\ Len(stored) = 2
  /\ readers["r1"].call = "freq"
  /\ readers["r2"].call = "search"
  /\ Finished(readers["r1"])
  /\ Finished(readers["r2"])
  /\ readers["r1"].freqs = Some(2)
  /\ readers["r2"].res = <<T_bar, T_bar, T_e>>

\* C20: a prune(N) on segments holding at least N entries keeps exactly
\* the entries whose count is >= the N-th largest of the per-segment
\* counts (equal counts counted separately).
NthLargest(freqs, n) ==
  CHOOSE v \in {freqs[i] : i \in 1..Len(freqs)} :
    /\ Cardinality({i \in 1..Len(freqs) : freqs[i] > v}) < n
    /\ Cardinality({i \in 1..Len(freqs) : freqs[i] >= v}) >= n

RECURSIVE AtLeast(_, _)
AtLeast(map, v) ==
  IF map = <<>> THEN <<>>
  ELSE (IF Head(map).freq >= v THEN <<Head(map)>> ELSE <<>>) \o AtLeast(Tail(map), v)

C20_PruneKeepsTopN ==
  [][(lastOp'.op = "prune" /\ lastOp'.res = "ok") =>
       Maps(stored') =
         [i \in 1..Len(stored) |->
            AtLeast(stored[i].map, NthLargest(StreamFreqs(stored), lastOp'.n))]]_vars

\* C21: when the segments hold fewer than N entries in all (a term held
\* by k segments counting k times), prune(N) returns Ok and leaves the
\* catalog, meta.json, the open segments, the files and the builder as
\* they were.
RECURSIVE EntryCount(_)
EntryCount(st) == IF st = <<>> THEN 0 ELSE Len(Head(st).map) + EntryCount(Tail(st))

C21_PruneSkipsBelowTarget ==
  [][(lastOp'.op = "prune" /\ EntryCount(stored) < lastOp'.n) =>
       /\ lastOp'.res = "noop"
       /\ UNCHANGED <<metadata, metaFile, stored, files, builder, nextUuid>>]_vars

\* a prune(2) skipped on two segments that hold one entry between them,
\* with an insert waiting in the builder
C21_Witness ==
  /\ lastOp.op = "prune"
  /\ lastOp.res = "noop"
  /\ lastOp.n = 2
  /\ Len(stored) = 2
  /\ EntryCount(stored) = 1
  /\ builder # DictBuilderNew

\* C22: a prune that rewrote the segments keeps their number, leaves in
\* the i-th segment exactly the entries of the i-th segment whose count is
\* >= the threshold, counts and order kept, and so freq(t) afterwards is
\* None or at most what it was.
C22_PruneOnlyDropsEntries ==
  [][(lastOp'.op = "prune" /\ lastOp'.res = "ok") =>
       LET threshold == PruneLowest(PruneHeap(stored, lastOp'.n))
       IN /\ Len(stored') = Len(stored)
          /\ \A i \in 1..Len(stored) :
               stored'[i].map = AtLeast(stored[i].map, threshold)
          /\ \A t \in TermUniverse :
               \/ Freq(stored', t) = None
               \/ /\ Present(stored, t)
                  /\ FreqN(stored', t) <= FreqN(stored, t)]_vars

\* a prune of two segments: the first lost its only entry, the second kept
\* one of three, and the freq of the surviving term went from 4 to 3
C22_Witness ==
  /\ lastOp.op = "prune"
  /\ lastOp.res = "ok"
  /\ Len(stored) = 2
  /\ stored[1].map = <<>>
  /\ stored[2].map = <<[term |-> T_ee1, freq |-> 3]>>
  /\ files[DictFileName(1)] = <<[term |-> T_ee1, freq |-> 1]>>
  /\ Len(files[DictFileName(2)]) = 3

\* C23: merge_dicts on a dictionary of zero or one segment returns Ok and
\* leaves the catalog, meta.json, the open segments, the files and the
\* builder as they were; no id is handed out and no file is created.
C23_MergeDictsNoOpBelowTwo ==
  [][(lastOp'.op = "merge_dicts" /\ Len(stored) <= 1) =>
       /\ lastOp'.res = "noop"
       /\ UNCHANGED <<metadata, metaFile, stored, files, builder, nextUuid>>]_vars

\* a merge_dicts on one non-empty segment with an insert in the builder
C23_Witness ==
  /\ lastOp.op = "merge_dicts"
  /\ lastOp.res = "noop"
  /\ Len(stored) = 1
  /\ stored[1].map # <<>>
  /\ builder # DictBuilderNew
  /\ Cardinality(DOMAIN files) = 1

\* C24: when the k-way merge of merge_dicts fails, the catalog in memory
\* and meta.json are as before the call and no file named after the id of
\* the aborted merge is left in the directory.
C24_FailedMergeLeavesNoOutput ==
  [][(lastOp'.op = "merge_dicts" /\ lastOp'.res = "err"
        /\ lastOp'.failed \in {"create", "write"}) =>
       /\ UNCHANGED <<metadata, metaFile>>
       /\ DictFileName(nextUuid) \notin DOMAIN files']_vars

\* C25: after open creating the directory, commit, a merge_dicts that
\* merged, a prune that rewrote and merge-in, whenever they return Ok, the
\* ids in meta.json are the ids of the catalog in memory, in the same order.
C25_SavedCatalogIsCatalog ==
  (lastOp.res = "ok" /\ lastOp.op \in {"open", "commit", "merge_dicts", "prune", "merge"}) =>
    /\ MetaParses(metaFile)
    /\ LoadMeta(metaFile) = metadata

\* a prune that replaced the two ids of the catalog by two new ones
C25_Witness ==
  /\ lastOp.op = "prune"
  /\ lastOp.res = "ok"
  /\ metadata = <<3, 4>>
  /\ metaFile.dicts = <<UuidToString(3), UuidToString(4)>>

\* C26: whatever calls were made and wherever they stopped, every id that
\* meta.json lists names a file of the directory that was written to its
\* end.
C26_ListedSegmentsAreComplete ==
  MetaParses(metaFile) =>
    \A i \in 1..Len(metaFile.dicts) :
      LET name == DictFileName(ParseUuid(metaFile.dicts[i]))
      IN /\ name \in DOMAIN files
         /\ FileComplete(files[name])

\* C27 (as stated): a commit with an empty builder changes neither the
\* catalog list, nor meta.json, nor the number of open segments.
C27_EmptyCommitIsNoOp ==
  [][(lastOp'.op = "commit" /\ lastOp'.res = "ok" /\ builder = DictBuilderNew) =>
       /\ UNCHANGED <<metadata, metaFile>>
       /\ Len(stored') = Len(stored)]_vars

\* C27 (amended): a commit with an empty builder leaves freq(t) of every term
\* and terms() unchanged, and appends exactly one new id to the catalog and to
\* meta.json; that id names an empty segment file, which is opened as one
\* more (empty) segment.
C27_EmptyCommitAddsEmptySegment ==
  [][(lastOp'.op = "commit" /\ lastOp'.res = "ok" /\ builder = DictBuilderNew) =>
       /\ \A t \in TermUniverse : Freq(stored', t) = Freq(stored, t)
       /\ Terms(stored') = Terms(stored)
       /\ metadata' = Append(metadata, nextUuid)
       /\ MetaParses(metaFile') /\ LoadMeta(metaFile') = metadata'
       /\ Len(stored') = Len(stored) + 1
       /\ stored'[Len(stored')].map = <<>>
       /\ DictFileName(nextUuid) \in DOMAIN files'
       /\ files'[DictFileName(nextUuid)] = <<>>]_vars

\* an empty commit has happened on a dictionary that holds a non-empty segment
C27_Witness ==
  /\ lastOp.op = "commit" /\ lastOp.res = "ok"
  /\ builder = DictBuilderNew
  /\ Len(stored) = 2
  /\ stored[1].map # <<>>
  /\ stored[2].map = <<>>
  /\ Len(metadata) = 2
  /\ files[DictFileName(metadata[2])] = <<>>

\* the byte-lexicographic order of Rust's String comparison
BytesBelow(s, t) == LexLess(Bytes(s), Bytes(t))

\* the least term under the unfinished cursors
LeastTerm(pointers) ==
  CHOOSE t \in {pointers[i].term : i \in Unfinished(pointers)} :
    \A j \in Unfinished(pointers) : ~BytesBelow(pointers[j].term, t)

\* C28: the k-way merge emits its keys in strictly ascending byte order, the
\* emitted keys are the union of the inputs' keys, and each key's value is the
\* sum of its values over the inputs that hold it; in every round a cursor is
\* advanced exactly if it is unfinished and its term is the round's minimum.
\* The merged segment is the one merge_dicts installs, so terms() of the
\* dictionary that holds it alone is strictly ascending, without duplicates.
C28_MergeEmitsSortedUnionOfSums ==
  [][/\ (merger.phase = "loop" /\ merger'.phase = "loop") =>
          \A i \in 1..Len(merger.pointers) :
            (merger'.pointers[i] # merger.pointers[i]) <=>
              /\ i \in Unfinished(merger.pointers)
              /\ merger.pointers[i].term = LeastTerm(merger.pointers)
     /\ merger'.phase = "done" =>
          LET out == merger'.out
              maps == merger'.maps
              terms == Terms(<<[path |-> DictFileName(1), map |-> out]>>)
          IN /\ \A i \in 1..(Len(out) - 1) : BytesBelow(out[i].term, out[i + 1].term)
             /\ FstKeys(out) = UNION {FstKeys(maps[k]) : k \in 1..Len(maps)}
             /\ \A i \in 1..Len(out) :
                  out[i].freq = SumSeq([k \in 1..Len(maps) |-> CountIn(maps[k], out[i].term)])
             /\ out = StoredDictMerge(maps)
             /\ \A i \in 1..(Len(terms) - 1) : BytesBelow(terms[i], terms[i + 1])
             /\ PairwiseDistinct(terms)]_vars

\* a finished merge of two segments that share "e-acute"; the least key is in
\* the second input
C28_Witness ==
  /\ merger.phase = "done"
  /\ merger.maps = << <<[term |-> T_e, freq |-> 2], [term |-> T_ee1, freq |-> 1]>>,
                      <<[term |-> T_bar, freq |-> 1], [term |-> T_e, freq |-> 1]>> >>
  /\ merger.out = <<[term |-> T_bar, freq |-> 1], [term |-> T_e, freq |-> 3],
                    [term |-> T_ee1, freq |-> 1]>>

\* the entries the cursors have not consumed yet, plus the cursors still open
Remaining(m) ==
  SumSeq([i \in 1..Len(m.pointers) |->
            (Len(m.maps[i]) - m.pointers[i].pos)
              + (IF m.pointers[i].is_finished THEN 0 ELSE 1)])

\* C29: the merge loop terminates.  Every iteration entered with an
\* unfinished cursor emits exactly one key and advances at least one
\* unfinished cursor, which strictly decreases what remains to be consumed;
\* the loop exits exactly when every cursor is finished.
C29_MergeLoopTerminates ==
  /\ [][merger.phase = "loop" =>
          /\ (merger'.phase = "done") <=> (Unfinished(merger.pointers) = {})
          /\ Unfinished(merger.pointers) # {} =>
               /\ Len(merger'.out) = Len(merger.out) + 1
               /\ \E i \in Unfinished(merger.pointers) :
                    merger'.pointers[i] # merger.pointers[i]
               /\ Remaining(merger') < Remaining(merger)]_vars
  /\ <>(merger.phase = "done")

\* a merge of two segments without a common key has ended after three rounds
C29_Witness ==
  /\ merger.phase = "done"
  /\ Len(merger.maps) = 2
  /\ FstKeys(merger.maps[1]) = {T_e}
  /\ FstKeys(merger.maps[2]) = {T_bar, T_ee1}
  /\ Len(merger.out) = 3
  /\ Unfinished(merger.pointers) = {}

\* the largest count among `freqs`
MaxCount(freqs) ==
  CHOOSE v \in SeqSet(freqs) : \A w \in SeqSet(freqs) : w <= v

RECURSIVE ExactlyAt(_, _)
ExactlyAt(map, v) ==
  IF map = <<>> THEN <<>>
  ELSE (IF Head(map).freq = v THEN <<Head(map)>> ELSE <<>>) \o ExactlyAt(Tail(map), v)

\* C30: when prune(N) does not skip, its threshold is the largest count any
\* entry of any segment holds, whatever N is among the values that do not
\* skip, and each segment keeps exactly its entries whose count equals that
\* largest count.
C30_PruneKeepsOnlyTheLargestCount ==
  [][(lastOp'.op = "prune" /\ lastOp'.res = "ok") =>
       LET freqs == StreamFreqs(stored)
           top == MaxCount(freqs)
       IN /\ lastOp'.n \in 1..Len(freqs)
          /\ \A m \in 1..Len(freqs) : PruneLowest(PruneHeap(stored, m)) = top
          /\ Maps(stored') = [i \in 1..Len(stored) |-> ExactlyAt(stored[i].map, top)]]_vars

\* prune(2) on a segment with counts 1, 2, 3 has kept the entry with count 3
\* alone
C30_Witness ==
  /\ lastOp.op = "prune"
  /\ lastOp.res = "ok"
  /\ lastOp.n = 2
  /\ Maps(stored) = << <<[term |-> T_ee1, freq |-> 3]>> >>
  /\ \E f \in DOMAIN files :
       [i \in 1..Len(files[f]) |-> files[f][i].freq] = <<1, 2, 3>>

\* C31: after any sequence of calls that all returned Ok the catalog and the
\* list of open segments have the same length, the ids of the catalog are
\* pairwise distinct, and the i-th open segment maps the file named by the
\* i-th id of the catalog.
C31_CatalogAndHandlesAligned ==
  /\ Len(metadata) = Len(stored)
  /\ PairwiseDistinct(metadata)
  /\ \A i \in 1..Len(stored) :
       /\ stored[i].path = DictFileName(metadata[i])
       /\ stored[i].path \in DOMAIN files
       /\ stored[i].map = files[stored[i].path]

\* a merge-in of two segments into a dictionary that holds a committed one
C31_Witness ==
  /\ lastOp.op = "merge"
  /\ lastOp.res = "ok"
  /\ metadata = <<1, 2, 3>>
  /\ Len(stored) = 3
  /\ stored[1].map # <<>>
  /\ stored[3].path = DictFileName(3)

\* C32: a commit or a prune that returns Err leaves the catalog in memory,
\* the open segments and meta.json as they were before the call, and a
\* commit that returns Err leaves the counts of the builder in place.
C32_FailedCommitOrPruneKeepsState ==
  [][(lastOp'.op \in {"commit", "prune"} /\ lastOp'.res = "err") =>
       /\ UNCHANGED <<metadata, stored, metaFile>>
       /\ lastOp'.op = "commit" => UNCHANGED builder]_vars

\* C33: prune(0) never returns normally.  In every state of the dictionary,
\* one without segments included, the heap stays empty, the skip test is
\* false and the call panics; the catalog, meta.json, the open segments, the
\* files and the builder are as they were before the call.
C33_PruneZeroPanics ==
  [][(lastOp'.op = "prune" /\ lastOp'.n = 0) =>
       /\ PruneHeap(stored, 0) = <<>>
       /\ ~PruneSkips(PruneHeap(stored, 0), 0)
       /\ lastOp'.res = "panic"
       /\ UNCHANGED <<metadata, metaFile, stored, files, builder, nextUuid>>]_vars

\* prune(0) has panicked on a dictionary of two segments that hold entries
C33_Witness ==
  /\ lastOp.op = "prune"
  /\ lastOp.n = 0
  /\ lastOp.res = "panic"
  /\ Len(stored) = 2
  /\ EntryCount(stored) = 3
  /\ Len(metadata) = 2

\* the UTF-8 length of a character, from its code point
Utf8Len(c) == IF c < 128 THEN 1 ELSE IF c < 2048 THEN 2 ELSE IF c < 65536 THEN 3 ELSE 4

ByteLen(t) == SumSeq([i \in 1..Len(t) |-> Utf8Len(t[i])])

\* the tests of the filter as the claim words them: percentages of the
\* byte length
ByteFilterRejects(t) ==
  LET punctuation == Cardinality({i \in 1..Len(t) : IsAsciiPunctuation(t[i])})
      nonAlphabetic == Len(t) - Cardinality({i \in 1..Len(t) : IsAlphabetic(t[i])})
  IN \/ ByteLen(t) <= 1
     \/ ByteLen(t) > 100
     \/ 32 \in SeqSet(t)
     \/ 100 * punctuation > 50 * ByteLen(t)
     \/ 100 * nonAlphabetic > 25 * ByteLen(t)

\* the terms of FilterTerms that pass these tests
ByteFilterPasses == {t \in FilterTerms : ~ByteFilterRejects(t)}

\* C34: insert(term) puts term in the builder if and only if none of these
\* holds, every length being the UTF-8 byte length: length <= 1; length >
\* 100; the term contains ' '; ASCII punctuation characters over the byte
\* length > 0.5; non-alphabetic characters over the byte length > 0.25.
\* A call that admitted has counted a term that passes the tests once; a
\* call that rejected has changed nothing and is the call of no term that
\* passes the tests.
C34_FilterMeasuresBytes ==
  [][lastOp'.op = "insert" =>
       IF lastOp'.res = "admitted"
         THEN \E t \in DOMAIN builder' :
                /\ ~ByteFilterRejects(t)
                /\ FilterCall(t)
                /\ builder' = DictBuilderInsert(builder, t)
         ELSE /\ UNCHANGED builder
              /\ \A t \in ByteFilterPasses : ~FilterCall(t)]_vars

\* two e-acute and a digit were admitted: a third of the characters, a
\* fifth of the bytes, is non-alphabetic
C34_Witness ==
  /\ lastOp.op = "insert"
  /\ lastOp.res = "admitted"
  /\ DOMAIN builder = {T_ee1}
  /\ 4 * CountNonAlphabetic(T_ee1) > Len(T_ee1)
  /\ 4 * CountNonAlphabetic(T_ee1) <= ByteLen(T_ee1)

====
